---- MODULE Spec2Model ----
(***************************************************************************)
(* A model of the MCP prototype: the message hub (agent registry, tool     *)
(* registry, routing of tools/call and response, workflow engine) and the  *)
(* orchestrator agent (request correlation by token with a timer,          *)
(* sequential plan execution, conversation memory).                        *)
(***************************************************************************)
EXTENDS Integers, Sequences, FiniteSets, TLC

\* ---------------------------------------------------------------- bounds
MaxConn == 2        \* connections the hub accepts in one run
MaxAgent == 2       \* distinct agent ids used in register messages
MaxTool == 2        \* distinct tool names
MaxId == 1          \* distinct message ids a client chooses
MaxArg == 1         \* distinct argument bags of a tools/call
MaxInflight == 1    \* forwarded calls awaiting the agent's answer
MaxTime == 2        \* last value of the hub's millisecond clock (starts at 1)
MaxSteps == 2       \* steps of a workflow
MaxWfCalls == 1     \* workflow step calls awaiting the agent's answer
MaxWorkflows == 1   \* distinct workflow ids in the hub's workflows Map
MaxPlans == 7       \* plans completed one after another
MaxReq == 2         \* natural_request calls the orchestrator receives in one run
MaxClock == 10002   \* last value of the orchestrator's millisecond clock
MaxDrift == 1       \* milliseconds the clock is observed past a multiple of the timeout

\* tool names the agents of the repository advertise
ToolNames ==
  <<"calculate", "extract_text", "analyze_content", "write_file", "convert_units">>

Conn == 1..MaxConn
AgentId == 1..MaxAgent
Tool == {ToolNames[i] : i \in 1..MaxTool}
Arg == 1..MaxArg

\* ---------------------------------------------------------------- values
NoId == [kind |-> "none", a |-> 0, b |-> 0]
ClientId(k) == [kind |-> "client", a |-> k, b |-> 0]
ClientIds == {ClientId(k) : k \in 1..MaxId}
\* `${workflowId}-step-${currentStep}` with workflowId = `workflow-${Date.now()}`
StepId(wid, n) == [kind |-> "wfstep", a |-> wid, b |-> n]

\* a result object: src and arg tell which call it answers, data is the
\* worker's data field (0 = absent), err the text of an {error} entry
NoResult == [ok |-> FALSE, src |-> NoId, arg |-> 0, data |-> 0, err |-> ""]

\* every wire message, one record shape; absent fields keep these defaults
NoMsg ==
  [type |-> "none", id |-> NoId, agent |-> 0, name |-> "", args |-> 0, code |-> "",
   wf |-> 0, rt |-> 0, tools |-> {}, result |-> NoResult,
   workflowId |-> 0, results |-> <<>>, status |-> ""]

\* JavaScript Map.set / Map.delete on a map kept as a function
MapSet(m, k, v) == [x \in DOMAIN m \cup {k} |-> IF x = k THEN v ELSE m[x]]
MapDelete(m, k) == [x \in DOMAIN m \ {k} |-> m[x]]
EmptyMap == [x \in {} |-> 0]

VARIABLES
  connState,      \* hub: per connection "new" | "open" | "closing" | "closed"
  wsAgentId,      \* hub: ws.agentId of each connection (0 = not set)
  agents,         \* hub: Map agentId -> [ws, tools]
  toolRegistry,   \* hub: Map toolName -> agentId
  workflows,      \* hub: Map workflowId -> [steps, currentStep, results, clientWs, status]
  now,            \* hub: Date.now()
  inflight,       \* tools/call messages delivered to agents, not yet answered
  last,           \* the event the hub handled last
  out,            \* the messages that handler sent: set of <<connection, message>>
  lost            \* history: tools whose owner's connection the hub has seen close

hubVars == <<connState, wsAgentId, agents, toolRegistry, workflows, now,
             inflight, last, out, lost>>

\* ---- state of the orchestrator agent (src/agents/web-agent.js)
VARIABLES
  availableTools,   \* Map toolName -> info, as the set of its keys
  pendingRequests,  \* Map requestId -> requestInfo
  timers,           \* setTimeout callbacks that have not run yet
  calls,            \* tools/call messages sent and not yet answered
  task,             \* per natural_request: position of its handler and its locals
  conversationMemory,
  onow,             \* Date.now() of the orchestrator process
  olast             \* observer: the last event the orchestrator handled

orchVars == <<availableTools, pendingRequests, timers, calls, task,
              conversationMemory, onow, olast>>

vars == <<hubVars, orchVars>>


\* ------------------------------------------------------------ hub helpers
OPEN == "open"    \* ws.readyState === 1

\* wss.clients with readyState === 1, except excludeWs
OpenClientsExcept(excludeWs) ==
  {d \in Conn : d # excludeWs /\ connState[d] = OPEN}

\* a variant that keeps the entry a name already has
RegisterToolsKeepFirst(reg, agentId, tools) ==
  [t \in DOMAIN reg \cup tools |-> IF t \in DOMAIN reg THEN reg[t] ELSE agentId]

\* agentInfo.tools.forEach(tool => toolRegistry.set(tool.name, {agentId, ...}))
RegisterTools(reg, agentId, tools) ==
  [t \in DOMAIN reg \cup tools |-> IF t \in tools THEN agentId ELSE reg[t]]

\* agent.tools.forEach(tool => toolRegistry.delete(tool.name))
RemoveTools(reg, tools) == [t \in DOMAIN reg \ tools |-> reg[t]]

\* the serverCapabilities.tools list: Array.from(toolRegistry.keys())
Catalog(reg) == DOMAIN reg

RegisteredMsg(agentId, reg) ==
  [NoMsg EXCEPT !.type = "registered", !.agent = agentId, !.tools = Catalog(reg)]

CapabilitiesUpdatedMsg(reg) ==
  [NoMsg EXCEPT !.type = "capabilities_updated", !.tools = Catalog(reg)]

ErrorMsg(id, code) == [NoMsg EXCEPT !.type = "error", !.id = id, !.code = code]

\* a variant that looks the agent up before the tool
CallVerdictAgentFirst(reg, ags, toolName) ==
  IF toolName \notin DOMAIN reg \/ reg[toolName] \notin DOMAIN ags
     \/ connState[ags[reg[toolName]].ws] # OPEN THEN "AGENT_UNAVAILABLE"
  ELSE "forward"

\* what the tools/call handler decides for a tool name, from the registries
CallVerdict(reg, ags, toolName) ==
  IF toolName \notin DOMAIN reg THEN "TOOL_NOT_FOUND"
  ELSE IF reg[toolName] \notin DOMAIN ags
          \/ connState[ags[reg[toolName]].ws] # OPEN THEN "AGENT_UNAVAILABLE"
  ELSE "forward"

\* the message the hub forwards to the owning agent; _responseTarget is the
\* caller's socket object, which JSON.stringify turns into plain data
ForwardedCall(ws, id, toolName, args) ==
  [NoMsg EXCEPT !.type = "tools/call", !.id = id, !.name = toolName,
                !.args = args, !.rt = ws]


\* ------------------------------------------------------- workflow engine
\* tools named in workflow steps: two that an agent registers and one that
\* no agent registers
WfTools == {"fetch_url", "write_file", "calculate"}

\* a step of msg.params.steps; dependsOn = -1 stands for undefined
WfStep(tool, dependsOn) == [tool |-> tool, args |-> 1, dependsOn |-> dependsOn]

\* the step lists clients send: a later step names the step before it
WfStepLists ==
  UNION {{[k \in 1..n |-> WfStep(f[k], k - 2)] : f \in [1..n -> WfTools]} :
           n \in 1..MaxSteps}

\* the data field a worker computes for a call (never the caller's arguments)
DataOf(call) == call.args + MaxArg

ErrEntry(text) == [NoResult EXCEPT !.err = text]

WorkflowResultMsg(wid, w) ==
  [NoMsg EXCEPT !.type = "workflow/result", !.workflowId = wid,
                !.results = w.results, !.status = "completed"]

WorkflowStepCall(wid, w) ==
  [NoMsg EXCEPT !.type = "tools/call", !.id = StepId(wid, w.currentStep),
                !.name = w.steps[w.currentStep + 1].tool,
                !.args = w.steps[w.currentStep + 1].args, !.wf = wid]

\* completeWorkflow: the record after it and the message it sends
CompleteWorkflow(wid, w) ==
  [wf |-> [w EXCEPT !.status = "completed"],
   sends |-> {<<w.clientWs, WorkflowResultMsg(wid, w)>>}]

\* executeWorkflowStep on workflow record w (currentStep counts from 0)
RECURSIVE ExecuteWorkflowStep(_, _)
ExecuteWorkflowStep(wid, w) ==
  IF w.currentStep >= Len(w.steps) THEN CompleteWorkflow(wid, w)
  ELSE LET step == w.steps[w.currentStep + 1] IN
    IF step.tool \notin DOMAIN toolRegistry
    THEN ExecuteWorkflowStep(wid,
           [w EXCEPT !.results = Append(@, ErrEntry("not found")),
                     !.currentStep = @ + 1])
    ELSE IF toolRegistry[step.tool] \notin DOMAIN agents
    THEN ExecuteWorkflowStep(wid,
           [w EXCEPT !.results = Append(@, ErrEntry("unavailable")),
                     !.currentStep = @ + 1])
    ELSE [wf |-> w,
          sends |-> {<<agents[toolRegistry[step.tool]].ws, WorkflowStepCall(wid, w)>>}]

\* the tools/call messages among sends that reach an open socket
Delivered(sends) ==
  {[to |-> s[1], msg |-> s[2]] : s \in {x \in sends :
      x[2].type = "tools/call" /\ connState[x[1]] = OPEN}}

Event(op, ws, msg) == [op |-> op, ws |-> ws, msg |-> msg]

\* ------------------------------------------------------------ hub actions
HubInit ==
  /\ connState = [c \in Conn |-> OPEN]
  /\ wsAgentId = [c \in Conn |-> 0]
  /\ agents = EmptyMap
  /\ toolRegistry = EmptyMap
  /\ workflows = EmptyMap
  /\ now = 1
  /\ inflight = {}
  /\ last = Event("init", 0, NoMsg)
  /\ out = {}
  /\ lost = {}

\* Date.now() advances
Tick ==
  /\ now < MaxTime
  /\ now' = now + 1
  /\ last' = Event("tick", 0, NoMsg)
  /\ out' = {}
  /\ UNCHANGED <<connState, wsAgentId, agents, toolRegistry, workflows, inflight, lost,
               orchVars>>

\* messageHandlers.register
Register(ws, agentId, tools) ==
  /\ connState[ws] = OPEN
  /\ agents' = MapSet(agents, agentId, [ws |-> ws, tools |-> tools])
  /\ wsAgentId' = [wsAgentId EXCEPT ![ws] = agentId]
  /\ toolRegistry' = RegisterTools(toolRegistry, agentId, tools)
  /\ out' = {<<ws, RegisteredMsg(agentId, toolRegistry')>>}
            \cup {<<agents'[id].ws, CapabilitiesUpdatedMsg(toolRegistry')>> :
                    id \in {b \in DOMAIN agents' :
                              b # agentId /\ connState[agents'[b].ws] = OPEN}}
  /\ last' = Event("register", ws,
                   [NoMsg EXCEPT !.type = "register", !.agent = agentId, !.tools = tools])
  /\ lost' = {t \in lost : t \notin tools /\ ~(t \in DOMAIN toolRegistry
                                                /\ toolRegistry[t] = agentId)}
  /\ UNCHANGED <<connState, workflows, now, inflight,
               orchVars>>

\* messageHandlers['tools/list']
ToolsList(ws, id) ==
  /\ connState[ws] = OPEN
  /\ out' = {<<ws, [NoMsg EXCEPT !.type = "response", !.id = id,
                                 !.tools = Catalog(toolRegistry)]>>}
  /\ last' = Event("tools/list", ws, [NoMsg EXCEPT !.type = "tools/list", !.id = id])
  /\ UNCHANGED <<connState, wsAgentId, agents, toolRegistry, workflows, now, inflight, lost,
               orchVars>>

\* a variant that returns without replying when the call cannot be forwarded
ToolsCallSendsSilent(ws, id, toolName, args) ==
  IF CallVerdict(toolRegistry, agents, toolName) = "forward"
  THEN {<<agents[toolRegistry[toolName]].ws, ForwardedCall(ws, id, toolName, args)>>}
  ELSE {}

\* the messages messageHandlers['tools/call'] sends
ToolsCallSends(ws, id, toolName, args) ==
  LET v == CallVerdict(toolRegistry, agents, toolName) IN
  IF v = "forward"
  THEN {<<agents[toolRegistry[toolName]].ws, ForwardedCall(ws, id, toolName, args)>>}
  ELSE {<<ws, ErrorMsg(id, v)>>}

\* messageHandlers['tools/call']
ToolsCall(ws, id, toolName, args) ==
  /\ connState[ws] = OPEN
  /\ out' = ToolsCallSends(ws, id, toolName, args)
  /\ Cardinality(inflight \cup Delivered(out')) <= MaxInflight
  /\ inflight' = inflight \cup Delivered(out')
  /\ last' = Event("tools/call", ws,
                   [NoMsg EXCEPT !.type = "tools/call", !.id = id,
                                 !.name = toolName, !.args = args])
  /\ UNCHANGED <<connState, wsAgentId, agents, toolRegistry, workflows, now, lost,
               orchVars>>


\* messageHandlers['workflow/start']
WorkflowStart(ws, id, steps) ==
  LET wid == now
      r == ExecuteWorkflowStep(wid,
             [steps |-> steps, currentStep |-> 0, results |-> <<>>,
              clientWs |-> ws, status |-> "running"])
  IN
  /\ connState[ws] = OPEN
  /\ workflows' = MapSet(workflows, wid, r.wf)
  /\ out' = {<<ws, [NoMsg EXCEPT !.type = "response", !.id = id,
                                 !.workflowId = wid, !.status = "started"]>>}
            \cup r.sends
  /\ Cardinality(DOMAIN workflows \cup {wid}) <= MaxWorkflows
  /\ Cardinality(inflight \cup Delivered(r.sends)) <= MaxWfCalls
  /\ inflight' = inflight \cup Delivered(r.sends)
  /\ last' = Event("workflow/start", ws,
                   [NoMsg EXCEPT !.type = "workflow/start", !.id = id, !.wf = wid])
  /\ UNCHANGED <<connState, wsAgentId, agents, toolRegistry, now, lost,
               orchVars>>

\* a variant whose reply does not carry the id of the message it answers
UnknownReplyNoId(ws, msg) == {<<ws, ErrorMsg(NoId, "UNKNOWN_MESSAGE")>>}

\* the reply for a message type that has no handler
UnknownReply(ws, msg) == {<<ws, ErrorMsg(msg.id, "UNKNOWN_MESSAGE")>>}

\* ws.on('message') for an incoming message of type response or error
\* (rest: the in-flight calls that stay unanswered)
OnReply(ws, msg, rest) ==
  IF msg.type = "response" /\ msg.wf # 0 /\ msg.wf \in DOMAIN workflows
  THEN LET w == workflows[msg.wf]
           r == ExecuteWorkflowStep(msg.wf,
                  [w EXCEPT !.results = Append(@, msg.result),
                            !.currentStep = @ + 1])
       IN /\ workflows' = MapSet(workflows, msg.wf, r.wf)
          /\ out' = r.sends
          /\ inflight' = rest \cup Delivered(r.sends)
  ELSE /\ out' = IF msg.type # "response" THEN UnknownReply(ws, msg)
                 ELSE IF msg.rt # 0 THEN {<<ws, ErrorMsg(NoId, "INVALID_JSON")>>}
                 ELSE {<<d, msg>> : d \in OpenClientsExcept(ws)}
       /\ inflight' = rest
       /\ UNCHANGED workflows

\* the answer an agent gives to a call it received (see the agents'
\* ws.on('message') tools/call branches)
AgentReply(call, kind, ok, echoWf) ==
  [NoMsg EXCEPT !.type = kind, !.id = call.id,
                !.result = IF kind = "response"
                           THEN [ok |-> ok, src |-> call.id, arg |-> call.args,
                                 data |-> DataOf(call), err |-> ""]
                           ELSE NoResult,
                !.code = IF kind = "error" THEN "INTERNAL_ERROR" ELSE "",
                !.wf = IF kind = "response" /\ echoWf THEN call.wf ELSE 0]

\* an agent answers a call; the hub handles the answer
AgentAnswers(m, kind, ok, echoWf) ==
  /\ m \in inflight
  /\ connState[m.to] = OPEN
  /\ (kind = "error" => ok = FALSE /\ echoWf = FALSE)
  /\ OnReply(m.to, AgentReply(m.msg, kind, ok, echoWf), inflight \ {m})
  /\ last' = Event("reply", m.to, AgentReply(m.msg, kind, ok, echoWf))
  /\ UNCHANGED <<connState, wsAgentId, agents, toolRegistry, now, lost,
               orchVars>>

\* a message whose type has no handler
Unknown(ws, id) ==
  /\ connState[ws] = OPEN
  /\ out' = UnknownReply(ws, [NoMsg EXCEPT !.type = "unknown", !.id = id])
  /\ last' = Event("unknown", ws, [NoMsg EXCEPT !.type = "unknown", !.id = id])
  /\ UNCHANGED <<connState, wsAgentId, agents, toolRegistry, workflows, now, inflight, lost,
               orchVars>>

\* the error the legacy branch sends: {type: 'error', id, message:
\* 'agent-not-found'}, which has no error.code
AgentNotFoundMsg(id) ==
  [NoMsg EXCEPT !.type = "error", !.id = id, !.status = "agent-not-found"]

\* ws.on('message'), "Legacy fallback": a message of type request that names a
\* recipient in msg.to; no entry of messageHandlers has this type
LegacyRequest(ws, id, to) ==
  LET msg == [NoMsg EXCEPT !.type = "request", !.id = id, !.agent = to]
  IN
  /\ connState[ws] = OPEN
  /\ out' = IF to \notin DOMAIN agents
            THEN {<<ws, AgentNotFoundMsg(id)>>}
            ELSE {<<agents[to].ws, msg>>}
  /\ last' = Event("request", ws, msg)
  /\ UNCHANGED <<connState, wsAgentId, agents, toolRegistry, workflows, now, inflight, lost,
               orchVars>>

\* what a client can send that the hub cannot process: text that is not JSON,
\* or a message for one of the async handlers without its params
MalformedKinds == {"text", "tools/call", "resources/read", "workflow/start"}

\* ws.on('message') for a malformed message. JSON.parse throws inside the try
\* block and the catch replies INVALID_JSON. An async handler that destructures
\* the missing msg.params returns a rejected promise that nobody awaits: the
\* catch is not entered and nothing is sent; the unhandled rejection is only
\* logged or ends the process (exits), depending on the runtime's
\* unhandled-rejections mode
Malformed(ws, kind, exits) ==
  /\ connState[ws] = OPEN
  /\ (kind = "text" => ~exits)
  /\ out' = IF kind = "text" THEN {<<ws, ErrorMsg(NoId, "INVALID_JSON")>>} ELSE {}
  /\ last' = Event("malformed", ws, [NoMsg EXCEPT !.type = kind])
  /\ IF exits
     THEN /\ connState' = [c \in Conn |-> "closed"]
          /\ wsAgentId' = [c \in Conn |-> 0]
          /\ agents' = EmptyMap
          /\ toolRegistry' = EmptyMap
          /\ workflows' = EmptyMap
          /\ inflight' = {}
     ELSE UNCHANGED <<connState, wsAgentId, agents, toolRegistry, workflows, inflight>>
  /\ UNCHANGED <<now, lost, orchVars>>

\* the peer starts closing: readyState leaves OPEN before 'close' is emitted
BeginClose(ws) ==
  /\ connState[ws] = OPEN
  /\ connState' = [connState EXCEPT ![ws] = "closing"]
  /\ last' = Event("closing", ws, NoMsg)
  /\ out' = {}
  /\ UNCHANGED <<wsAgentId, agents, toolRegistry, workflows, now, inflight, lost,
               orchVars>>

\* the tools that resolve to the agent registered on connection ws
OwnedVia(ws) ==
  {t \in DOMAIN toolRegistry :
     /\ toolRegistry[t] = wsAgentId[ws]
     /\ toolRegistry[t] \in DOMAIN agents
     /\ agents[toolRegistry[t]].ws = ws}

\* ws.on('close'); the socket object is unreachable afterwards, so its
\* agentId field is dropped with it
Close(ws) ==
  /\ connState[ws] \in {OPEN, "closing"}
  /\ connState' = [connState EXCEPT ![ws] = "closed"]
  /\ IF wsAgentId[ws] # 0 /\ wsAgentId[ws] \in DOMAIN agents
     THEN /\ toolRegistry' = RemoveTools(toolRegistry, agents[wsAgentId[ws]].tools)
          /\ agents' = MapDelete(agents, wsAgentId[ws])
     ELSE UNCHANGED <<agents, toolRegistry>>
  /\ wsAgentId' = [wsAgentId EXCEPT ![ws] = 0]
  /\ inflight' = {m \in inflight : m.to # ws}
  /\ lost' = lost \cup OwnedVia(ws)
  /\ last' = Event("close", ws, [NoMsg EXCEPT !.agent = wsAgentId[ws]])
  /\ out' = {}
  /\ UNCHANGED <<workflows, now,
               orchVars>>

HubNext ==
  \/ \E ws \in Conn, a \in AgentId, T \in SUBSET Tool : Register(ws, a, T)
  \/ \E ws \in Conn, id \in ClientIds : ToolsList(ws, id)
  \/ \E ws \in Conn, id \in ClientIds, t \in Tool, x \in Arg : ToolsCall(ws, id, t, x)
  \/ \E m \in inflight, kind \in {"response", "error"}, ok \in BOOLEAN, e \in BOOLEAN :
        AgentAnswers(m, kind, ok, e)
  \/ \E ws \in Conn, id \in ClientIds : Unknown(ws, id)
  \/ \E ws \in Conn, id \in ClientIds, to \in AgentId : LegacyRequest(ws, id, to)
  \/ \E ws \in Conn, kind \in MalformedKinds, exits \in BOOLEAN : Malformed(ws, kind, exits)
  \/ \E ws \in Conn : BeginClose(ws)
  \/ \E ws \in Conn : Close(ws)

\* ---- the workflow engine at work
\* a response that carries a workflow id reaches the hub from connection ws
\* outside the call/answer pairing above: a duplicate, a late answer, or a
\* message a client made up
ResponseArrives(ws, wid, n) ==
  LET call == [NoMsg EXCEPT !.id = StepId(wid, n), !.args = 1, !.wf = wid]
      msg == AgentReply(call, "response", TRUE, TRUE)
  IN /\ connState[ws] = OPEN
     /\ wid \in DOMAIN workflows
     /\ Len(workflows[wid].results) <= MaxSteps
     /\ OnReply(ws, msg, inflight)
     /\ Cardinality(inflight') <= MaxWfCalls
     /\ last' = Event("reply", ws, msg)
     /\ UNCHANGED <<connState, wsAgentId, agents, toolRegistry, now, lost,
                    orchVars>>

\* registries the hub has when workflows are started: one agent on connection
\* 1 owning fetch_url and write_file; the same with a write_file entry left
\* behind by an agent that is gone
WfRegistries ==
  {[agents |-> (1 :> [ws |-> 1, tools |-> {"fetch_url", "write_file"}]),
    toolRegistry |-> [t \in {"fetch_url", "write_file"} |-> 1]],
   [agents |-> (1 :> [ws |-> 1, tools |-> {"fetch_url"}]),
    toolRegistry |-> [t \in {"fetch_url", "write_file"} |->
                        IF t = "fetch_url" THEN 1 ELSE 2]]}

WfInit ==
  /\ connState = [c \in Conn |-> OPEN]
  /\ wsAgentId = [c \in Conn |-> IF c = 1 THEN 1 ELSE 0]
  /\ \E g \in WfRegistries : agents = g.agents /\ toolRegistry = g.toolRegistry
  /\ workflows = EmptyMap
  /\ now = 1
  /\ inflight = {}
  /\ last = Event("init", 0, NoMsg)
  /\ out = {}
  /\ lost = {}

WfNext ==
  \/ Tick
  \/ \E ws \in Conn, id \in ClientIds, steps \in WfStepLists :
       WorkflowStart(ws, id, steps)
  \/ \E m \in inflight, kind \in {"response", "error"}, ok \in BOOLEAN, e \in BOOLEAN :
        AgentAnswers(m, kind, ok, e)
  \/ \E ws \in Conn, wid \in 1..MaxTime, n \in 0..(MaxSteps - 1) :
       ResponseArrives(ws, wid, n)
  \/ \E ws \in Conn : Close(ws)

\* =================================================================
\* Orchestrator agent (src/agents/web-agent.js)
\* =================================================================
Req == 1..MaxReq

\* setTimeout(..., 10000) of executeStep
TimeoutMs == 10000

\* recentResults keeps the last 5 entries
RecentCap == 5

\* the intents of intentPatterns, in the order detectIntent tries them
IntentPatterns ==
  <<"web_ai_analyze", "extract_text", "fetch_url", "read_file", "save_context",
    "calculate", "statistics", "list_files", "write_file", "file_analysis",
    "fetch_and_save", "ai_analyze", "ai_generate", "ai_explain", "ai_improve",
    "ai_question", "file_ai_analyze", "calc_ai_explain">>

\* the queries a client sends in natural_request
Queries ==
  {"calculate 25 * 4 + 10",
   "Summarize this webpage - https://en.wikipedia.org/wiki/York_University",
   "save that to york.txt",
   "hello there",
   "convert units 5 km to miles"}

\* further queries, chosen so that several pattern groups match one query, no
\* group matches, or a tool name occurs in the query
IntentQueries ==
  Queries \cup
  {"save the average result to stats.txt",
   "what is the mean of 1, 2, 3",
   "use convert_units for 5 km",
   "list files in src",
   "why is the result 42",
   "analyze file notes.txt with ai",
   "please write file for me"}

\* indices of the pattern groups with a regex that matches the lower-cased query
MatchedGroups(query) ==
  CASE query = "calculate 25 * 4 + 10" -> {6}
    [] query = "Summarize this webpage - https://en.wikipedia.org/wiki/York_University"
         -> {1, 6, 12}
    [] query = "save that to york.txt" -> {5, 9}
    [] query = "save the average result to stats.txt" -> {5, 7, 9}
    [] query = "what is the mean of 1, 2, 3" -> {7, 14}
    [] query = "list files in src" -> {8}
    [] query = "why is the result 42" -> {18}
    [] query = "analyze file notes.txt with ai" -> {17}
    [] query = "please write file for me" -> {9}
    [] query = "why is 0 + 0 = result" -> {18}
    [] query = "why is 2 + 2 = result" -> {18}
    [] OTHER -> {}

\* toolName.replace('_', ' '): the first underscore becomes a space
SpokenName(toolName) ==
  CASE toolName = "extract_text" -> "extract text"
    [] toolName = "analyze_content" -> "analyze content"
    [] toolName = "write_file" -> "write file"
    [] toolName = "convert_units" -> "convert units"
    [] OTHER -> toolName

\* lowercaseQuery.includes(s), for s a tool name or a spoken tool name
Includes(query, s) ==
  <<query, s>> \in {<<"calculate 25 * 4 + 10", "calculate">>,
                    <<"convert units 5 km to miles", "convert units">>,
                    <<"use convert_units for 5 km", "convert_units">>,
                    <<"please write file for me", "write file">>}

\* tool names t with lowercaseQuery.includes(t.replace('_', ' '))
MentionedTools(query) ==
  {t \in {ToolNames[i] : i \in 1..Len(ToolNames)} : Includes(query, SpokenName(t))}

\* intent.extractFileName(query) of the save_context pattern
ExtractFileName(query, lastIntent) ==
  IF query = "save that to york.txt" THEN "york.txt"
  ELSE IF lastIntent = "web_ai_analyze" THEN "webpage_summary.txt" ELSE "result.txt"

SetMin(S) == CHOOSE x \in S : \A y \in S : x <= y

\* a variant that returns the last matching pattern group
DetectIntentLast(query, tools) ==
  IF MatchedGroups(query) # {}
  THEN IntentPatterns[CHOOSE k \in MatchedGroups(query) :
                        \A j \in MatchedGroups(query) : k >= j]
  ELSE IF MentionedTools(query) \cap tools # {}
       THEN CHOOSE t \in MentionedTools(query) \cap tools : TRUE
       ELSE "unknown"

\* detectIntent: first matching pattern group, else a tool of the catalog the
\* query mentions, else 'unknown'
DetectIntent(query, tools) ==
  IF MatchedGroups(query) # {}
  THEN IntentPatterns[SetMin(MatchedGroups(query))]
  ELSE IF MentionedTools(query) \cap tools # {}
       THEN CHOOSE t \in MentionedTools(query) \cap tools : TRUE
       ELSE "unknown"

\* ---- values
\* a worker's result object (msg.result); "" stands for an absent field
NoPayload ==
  [defined |-> FALSE, success |-> FALSE, text |-> "", analysis |-> "",
   result |-> "", response |-> "", content |-> "", path |-> "", error |-> ""]

\* evaluateExpression of the expression the plan extracts from the query; the
\* number is written in its textual form
EvaluateExpression(query) ==
  CASE query = "why is 0 + 0 = result" -> "0"
    [] query = "why is 2 + 2 = result" -> "4"
    [] OTHER -> "110"

\* what the agents answer for a tool when they succeed
GoodPayload(tool, args) ==
  CASE tool = "calculate" ->
         [NoPayload EXCEPT !.defined = TRUE, !.success = TRUE,
                           !.result = EvaluateExpression(args.arg)]
    [] tool = "read_file" ->
         [NoPayload EXCEPT !.defined = TRUE, !.success = TRUE,
                           !.content = "file text", !.path = "notes.txt"]
    [] tool = "extract_text" ->
         [NoPayload EXCEPT !.defined = TRUE, !.success = TRUE, !.text = "page text"]
    [] tool = "analyze_content" ->
         [NoPayload EXCEPT !.defined = TRUE, !.success = TRUE,
                           !.analysis = "summary of " \o args.content]
    [] tool = "write_file" ->
         [NoPayload EXCEPT !.defined = TRUE, !.success = TRUE, !.path = args.path]
    [] OTHER -> [NoPayload EXCEPT !.defined = TRUE, !.success = TRUE]

\* a result object that reports its own failure
BadPayload ==
  [NoPayload EXCEPT !.defined = TRUE, !.error = "tool failed"]

NoArgs == [arg |-> "", path |-> "", content |-> "", context |-> "", text |-> ""]

\* a variant whose dependent steps name the step after the one they need
PlanStepShifted(tool, args, dependsOn) ==
  [tool |-> tool, arguments |-> args,
   dependsOn |-> IF dependsOn = -1 THEN -1 ELSE dependsOn + 1]

\* a plan step; dependsOn = -1 stands for undefined
PlanStep(tool, args, dependsOn) ==
  [tool |-> tool, arguments |-> args, dependsOn |-> dependsOn]

\* a variant that drops the error text
StepResultNoError(success, error, tool, result) ==
  [success |-> success, error |-> "", tool |-> tool, result |-> result]

\* the value executeStep resolves with
StepResult(success, error, tool, result) ==
  [success |-> success, error |-> error, tool |-> tool, result |-> result]

NoMemory ==
  [lastResult |-> NoPayload, lastQuery |-> "", lastIntent |-> "",
   recentResults |-> <<>>]

\* JavaScript truthiness of a result object that may be null
Truthy(payload) == payload.defined

\* ---- createExecutionPlan
\* intents whose plan is one step, and that step's tool
SingleStepTool(intent) ==
  CASE intent = "read_file" -> "read_file"
    [] intent = "calculate" -> "calculate"
    [] intent = "statistics" -> "statistics"
    [] intent = "fetch_url" -> "fetch_url"
    [] intent = "extract_text" -> "extract_text"
    [] intent = "list_files" -> "list_files"
    [] intent = "write_file" -> "write_file"
    [] intent = "ai_analyze" -> "analyze_content"
    [] intent = "ai_generate" -> "generate_text"
    [] intent = "ai_explain" -> "explain_concept"
    [] intent = "ai_improve" -> "improve_text"
    [] intent = "ai_question" -> "answer_question"
    [] OTHER -> ""

\* intents whose plan is two steps, the second with dependsOn: 0
CompoundTools(intent) ==
  CASE intent = "file_analysis" -> <<"read_file", "statistics">>
    [] intent = "fetch_and_save" -> <<"fetch_url", "write_file">>
    [] intent = "web_ai_analyze" -> <<"extract_text", "analyze_content">>
    [] intent = "file_ai_analyze" -> <<"read_file", "analyze_content">>
    [] intent = "calc_ai_explain" -> <<"calculate", "explain_concept">>
    [] OTHER -> <<>>

\* case 'save_context': the memory entry the plan saves (null when there is none)
SaveSource(mem) ==
  IF Truthy(mem.lastResult) THEN [kind |-> "result", value |-> mem.lastResult]
  ELSE IF Len(mem.recentResults) > 0
       THEN LET recent == mem.recentResults[Len(mem.recentResults)]
            IN IF Truthy(recent.result)
               THEN [kind |-> "result", value |-> recent.result]
               ELSE [kind |-> "entry", value |-> NoPayload]   \* recent itself
       ELSE [kind |-> "null", value |-> NoPayload]

\* a variant that saves the bare analysis text, without the summary header
ContentToSaveBare(mem) ==
  LET source == SaveSource(mem).value
  IN IF source.analysis # "" THEN source.analysis
     ELSE IF source.result # "" THEN source.result
     ELSE IF source.response # "" THEN source.response
     ELSE "JSON.stringify(last)"

\* case 'save_context': contentToSave
ContentToSave(mem) ==
  LET source == SaveSource(mem).value
      recentIntent == IF Len(mem.recentResults) > 0
                      THEN mem.recentResults[Len(mem.recentResults)].intent
                      ELSE ""
  IN IF /\ (mem.lastIntent = "web_ai_analyze" \/ recentIntent = "web_ai_analyze")
        /\ source.analysis # ""
     THEN "Website Summary\n================\n\n" \o source.analysis
     ELSE IF source.result # "" THEN source.result
     ELSE IF source.response # "" THEN source.response
     ELSE "JSON.stringify(last)"

CreateExecutionPlan(intent, query, mem) ==
  IF SingleStepTool(intent) # ""
  THEN [error |-> "",
        steps |-> <<PlanStep(SingleStepTool(intent), [NoArgs EXCEPT !.arg = query], -1)>>]
  ELSE IF CompoundTools(intent) # <<>>
  THEN [error |-> "",
        steps |-> <<PlanStep(CompoundTools(intent)[1], [NoArgs EXCEPT !.arg = query], -1),
                    PlanStep(CompoundTools(intent)[2],
                             CASE CompoundTools(intent)[2] \in {"write_file", "analyze_content"}
                                    -> [NoArgs EXCEPT !.content = "PLACEHOLDER"]
                               [] CompoundTools(intent)[2] = "explain_concept"
                                    -> [NoArgs EXCEPT !.arg = query, !.context = "PLACEHOLDER"]
                               [] OTHER -> NoArgs,
                             0)>>]
  ELSE IF intent = "save_context"
  THEN IF SaveSource(mem).kind = "null"
       THEN [error |-> "No previous result to save. Please run a command that generates content first.",
             steps |-> <<>>]
       ELSE [error |-> "",
             steps |-> <<PlanStep("write_file",
                                  [NoArgs EXCEPT !.path = ExtractFileName(query, mem.lastIntent),
                                                 !.content = ContentToSave(mem)],
                                  -1)>>]
  ELSE [error |-> "",
        steps |-> <<PlanStep("error", [NoArgs EXCEPT !.arg = "I don't understand how to: " \o query], -1)>>]

\* a variant that sends every step with the arguments the plan gave it
InjectNothing(step, previousResults) == step

\* ---- executeStep, "Handle dependencies": the step with its arguments filled in
\* from previousResults[step.dependsOn]
InjectDependency(step, previousResults) ==
  IF step.dependsOn = -1 \/ step.dependsOn >= Len(previousResults)
  THEN step
  ELSE LET dependentResult == previousResults[step.dependsOn + 1]
           payload == dependentResult.result
       IN CASE step.tool = "write_file" -> step   \* a step result has no 'data' field
            [] step.tool = "analyze_content" /\ payload.text # ""
                 -> [step EXCEPT !.arguments.content = payload.text]
            [] step.tool = "explain_concept" /\ payload.result \notin {"", "0"}
                 -> [step EXCEPT !.arguments.context =
                                   "The calculation result is: " \o payload.result]
            [] step.tool = "explain_concept" /\ payload.result \in {"", "0"}
                                            /\ Truthy(payload)
                 -> [step EXCEPT !.arguments.context =
                                   "The calculation result is: [object Object]"]
            [] step.tool = "improve_text" /\ payload.content # ""
                 -> [step EXCEPT !.arguments.text = payload.content]
            [] OTHER -> step

\* requestId = `orchestrator-${Date.now()}-${stepIndex}`
RequestId(time, stepIndex) == [kind |-> "orchestrator", a |-> time, b |-> stepIndex]

\* a variant that always reports on the first step of the plan
FirstStep(results) == 1

\* ---- synthesizeResponse
FirstFailed(results) ==
  SetMin({k \in 1..Len(results) : ~results[k].success})

SynthesizeResponse(intent, results, mem) ==
  IF \E k \in 1..Len(results) : ~results[k].success
  THEN "I encountered an error: " \o results[FirstFailed(results)].error
  ELSE IF intent = "save_context"
  THEN IF Len(results) = 0 \/ ~Truthy(results[1].result)
       THEN "Failed to save file - no result returned"
       ELSE IF ~results[1].result.success
       THEN "Failed to save file: " \o
              (IF results[1].result.error # "" THEN results[1].result.error
               ELSE "Unknown error")
       ELSE "Successfully saved previous result to " \o
              (IF results[1].result.path # "" THEN results[1].result.path
               ELSE "unknown file")
  ELSE IF intent \in {IntentPatterns[k] : k \in 1..Len(IntentPatterns)}
  THEN "formatted " \o intent
  ELSE "Completed operations successfully."

\* ---- the handler of natural_request as a resumable computation
\* the part of the orchestrator's state a running handler reads and writes
OrchState ==
  [task |-> task, pending |-> pendingRequests, timers |-> timers,
   calls |-> calls, memory |-> conversationMemory]

IdleTask ==
  [pc |-> "idle", query |-> "", intent |-> "", steps |-> <<>>, planError |-> "",
   results |-> <<>>, dispatched |-> {}, requestId |-> NoId,
   reply |-> [success |-> FALSE, intent |-> "", executedSteps |-> 0, response |-> ""]]

\* a variant that never drops an entry of recentResults
RememberUnbounded(mem, query, intent, results) ==
  IF Len(results) > 0 /\ results[Len(results)].success
  THEN LET lastResult == results[Len(results)].result
       IN [lastResult |-> lastResult, lastQuery |-> query, lastIntent |-> intent,
           recentResults |-> Append(mem.recentResults,
                               [query |-> query, intent |-> intent,
                                result |-> lastResult])]
  ELSE mem

\* a variant that stores the last result whether or not it succeeded
RememberAlways(mem, query, intent, results) ==
  IF Len(results) > 0
  THEN LET lastResult == results[Len(results)].result
           pushed == Append(mem.recentResults,
                            [query |-> query, intent |-> intent, result |-> lastResult])
       IN [lastResult |-> lastResult, lastQuery |-> query, lastIntent |-> intent,
           recentResults |-> IF Len(pushed) > RecentCap THEN Tail(pushed) ELSE pushed]
  ELSE mem

\* a variant that sets the three last-fields and leaves recentResults alone
RememberLastOnly(mem, query, intent, results) ==
  IF Len(results) > 0 /\ results[Len(results)].success
  THEN [mem EXCEPT !.lastResult = results[Len(results)].result,
                   !.lastQuery = query, !.lastIntent = intent]
  ELSE mem

\* "Store result in conversation memory" of natural_request
Remember(mem, query, intent, results) ==
  IF Len(results) > 0 /\ results[Len(results)].success
  THEN LET lastResult == results[Len(results)].result
           pushed == Append(mem.recentResults,
                            [query |-> query, intent |-> intent, result |-> lastResult])
       IN [lastResult |-> lastResult, lastQuery |-> query, lastIntent |-> intent,
           recentResults |-> IF Len(pushed) > RecentCap THEN Tail(pushed) ELSE pushed]
  ELSE mem

\* natural_request after its loop: synthesize, remember, return the reply
FinishRequest(st, r) ==
  LET t == st.task[r]
  IN [st EXCEPT
        !.memory = Remember(st.memory, t.query, t.intent, t.results),
        !.task[r].pc = "done",
        !.task[r].reply =
           [success |-> TRUE, intent |-> t.intent,
            executedSteps |-> Len(t.steps),
            response |-> SynthesizeResponse(t.intent, t.results, st.memory)]]

PushResult(st, r, result) ==
  [st EXCEPT !.task[r].results = Append(@, result)]

\* executeStep up to the point where it returns a value or awaits the reply
ExecuteStep(st, r, time, tools) ==
  LET t == st.task[r]
      stepIndex == Len(t.results)
      step == InjectDependency(t.steps[stepIndex + 1], t.results)
      requestId == RequestId(time, stepIndex)
      st1 == [st EXCEPT !.task[r].steps[stepIndex + 1] = step]
  IN IF step.tool = "error"
     THEN FinishRequest(PushResult(st1, r,
            StepResult(FALSE, step.arguments.arg, "", NoPayload)), r)
     ELSE IF step.tool \notin tools
     THEN FinishRequest(PushResult(st1, r,
            StepResult(FALSE, "Tool " \o step.tool \o " not available", "", NoPayload)), r)
     ELSE [st1 EXCEPT
             !.task[r].pc = "await",
             !.task[r].requestId = requestId,
             !.task[r].dispatched = @ \cup {stepIndex},
             !.pending = MapSet(@, requestId,
                                [req |-> r, stepIndex |-> stepIndex, tool |-> step.tool]),
             !.calls = @ \cup {[id |-> requestId, name |-> step.tool,
                                arguments |-> step.arguments,
                                req |-> r, stepIndex |-> stepIndex]},
             !.timers = @ \cup {[id |-> requestId, req |-> r, stepIndex |-> stepIndex,
                                 tool |-> step.tool, due |-> time + TimeoutMs]}]

\* a variant of the loop that goes on to the next step after a failed one
PlanLoopNoBreak(st, r, time, tools) ==
  IF Len(st.task[r].results) >= Len(st.task[r].steps)
  THEN FinishRequest(st, r)
  ELSE ExecuteStep(st, r, time, tools)

\* for (i = 0; i < plan.steps.length; i++) { ...; if (!result.success) break; }
\* entered with the results so far; runs until the next await or the return
PlanLoop(st, r, time, tools) ==
  LET t == st.task[r]
  IN IF \/ Len(t.results) >= Len(t.steps)
        \/ (Len(t.results) > 0 /\ ~t.results[Len(t.results)].success)
     THEN FinishRequest(st, r)
     ELSE ExecuteStep(st, r, time, tools)

\* resolve(...) of the promise executeStep made for step stepIndex of request r;
\* a promise that is already settled ignores it
Resolve(st, r, stepIndex, result, time, tools) ==
  IF st.task[r].pc = "await" /\ Len(st.task[r].results) = stepIndex
  THEN PlanLoop(PushResult(st, r, result), r, time, tools)
  ELSE st

Commit(st) ==
  /\ task' = st.task
  /\ pendingRequests' = st.pending
  /\ timers' = st.timers
  /\ calls' = st.calls
  /\ conversationMemory' = st.memory

OEvent(op, id, req) == [op |-> op, id |-> id, req |-> req]

\* ---- orchestrator actions
\* tool lists the hub announces: the first k names the agents registered
CatalogSizes == {0, 2, Len(ToolNames)}
Catalogs == {{ToolNames[i] : i \in 1..k} : k \in CatalogSizes}

\* text of an error message an agent or the hub sends for a call
ErrorTexts == {"Tool execution failed"}

OrchInit ==
  /\ availableTools = {}
  /\ pendingRequests = EmptyMap
  /\ timers = {}
  /\ calls = {}
  /\ task = [r \in Req |-> IdleTask]
  /\ conversationMemory = NoMemory
  /\ onow = 1
  /\ olast = OEvent("init", NoId, 0)

\* Date.now() advances by d milliseconds
OrchTick(d) ==
  /\ onow + d <= MaxClock
  /\ (onow + d - 1) % TimeoutMs <= MaxDrift
  /\ onow' = onow + d
  /\ olast' = OEvent("tick", NoId, 0)
  /\ UNCHANGED <<availableTools, pendingRequests, timers, calls, task,
                 conversationMemory, hubVars>>

\* ws.on('message'): 'registered' and 'capabilities_updated'
CatalogUpdate(tools) ==
  /\ availableTools' = tools
  /\ olast' = OEvent("capabilities", NoId, 0)
  /\ UNCHANGED <<pendingRequests, timers, calls, task, conversationMemory, onow,
                 hubVars>>

\* ws.on('message'): 'tools/call' of natural_request, up to its first await
NaturalRequest(r, query) ==
  /\ task[r].pc = "idle"
  /\ \A q \in Req : q < r => task[q].pc # "idle"
  /\ LET intent == DetectIntent(query, availableTools)
         plan == CreateExecutionPlan(intent, query, conversationMemory)
         started == [OrchState EXCEPT
                       !.task[r].query = query,
                       !.task[r].intent = intent]
     IN IF intent = "unknown"
        THEN Commit([started EXCEPT
                       !.task[r].pc = "done",
                       !.task[r].reply =
                          [success |-> TRUE, intent |-> "unknown", executedSteps |-> 0,
                           response |-> "I'm not sure how to help with: " \o query]])
        ELSE Commit(PlanLoop([started EXCEPT !.task[r].steps = plan.steps,
                                             !.task[r].planError = plan.error],
                             r, onow, availableTools))
  /\ olast' = OEvent("natural_request", NoId, r)
  /\ UNCHANGED <<availableTools, onow, hubVars>>

\* ws.on('message'): 'response' answering the call c
OnResponse(c, payload) ==
  /\ c \in calls
  /\ LET st == [OrchState EXCEPT !.calls = @ \ {c}]
     IN IF c.id \in DOMAIN pendingRequests
        THEN LET requestInfo == pendingRequests[c.id]
             IN Commit(Resolve([st EXCEPT !.pending = MapDelete(@, c.id)],
                               requestInfo.req, requestInfo.stepIndex,
                               StepResult(TRUE, "", requestInfo.tool, payload),
                               onow, availableTools))
        ELSE Commit(st)
  /\ olast' = OEvent("response", c.id, c.req)
  /\ UNCHANGED <<availableTools, onow, hubVars>>

\* ws.on('message'): 'error' answering the call c
OnError(c, text) ==
  /\ c \in calls
  /\ LET st == [OrchState EXCEPT !.calls = @ \ {c}]
     IN IF c.id \in DOMAIN pendingRequests
        THEN LET requestInfo == pendingRequests[c.id]
             IN Commit(Resolve([st EXCEPT !.pending = MapDelete(@, c.id)],
                               requestInfo.req, requestInfo.stepIndex,
                               StepResult(FALSE, text, requestInfo.tool, NoPayload),
                               onow, availableTools))
        ELSE Commit(st)
  /\ olast' = OEvent("error", c.id, c.req)
  /\ UNCHANGED <<availableTools, onow, hubVars>>

\* the setTimeout callback of executeStep
TimerFires(tm) ==
  /\ tm \in timers
  /\ onow >= tm.due
  /\ LET st == [OrchState EXCEPT !.timers = @ \ {tm}]
     IN IF tm.id \in DOMAIN pendingRequests
        THEN Commit(Resolve([st EXCEPT !.pending = MapDelete(@, tm.id)],
                            tm.req, tm.stepIndex,
                            StepResult(FALSE, "Tool call timeout", tm.tool, NoPayload),
                            onow, availableTools))
        ELSE Commit(st)
  /\ olast' = OEvent("timer", tm.id, tm.req)
  /\ UNCHANGED <<availableTools, onow, hubVars>>

OrchNext ==
  \/ \E d \in {1, TimeoutMs} : OrchTick(d)
  \/ \E tools \in Catalogs : CatalogUpdate(tools)
  \/ \E r \in Req, query \in Queries : NaturalRequest(r, query)
  \/ \E c \in calls, ok \in BOOLEAN :
       OnResponse(c, IF ok THEN GoodPayload(c.name, c.arguments) ELSE BadPayload)
  \/ \E c \in calls, text \in ErrorTexts : OnError(c, text)
  \/ \E tm \in timers : TimerFires(tm)

\* ---- plans that run to their end one after another
\* result lists a plan of one or two steps can end with: every call answered
\* with the tool's result, or the first call answered with an error
PlanOutcomes(steps) ==
  IF steps = <<>> THEN {<<>>} ELSE
  {[k \in 1..Len(steps) |->
      StepResult(TRUE, "", steps[k].tool,
                 GoodPayload(steps[k].tool, steps[k].arguments))],
   <<StepResult(FALSE, "Tool execution failed", steps[1].tool, NoPayload)>>}

\* natural_request from detectIntent to its return, with no other request
\* running and every reply arriving before the next request
PlanCompletes(query, results) ==
  /\ olast.req < MaxPlans
  /\ DetectIntent(query, availableTools) # "unknown"
  /\ results \in PlanOutcomes(
        CreateExecutionPlan(DetectIntent(query, availableTools), query,
                            conversationMemory).steps)
  /\ conversationMemory' =
       Remember(conversationMemory, query,
                DetectIntent(query, availableTools), results)
  /\ olast' = OEvent("natural_request", NoId, olast.req + 1)
  /\ UNCHANGED <<availableTools, pendingRequests, timers, calls, task, onow, hubVars>>

MemNext ==
  \E query \in {q \in Queries : MatchedGroups(q) # {}} :
    \E results \in PlanOutcomes(
          CreateExecutionPlan(DetectIntent(query, availableTools), query,
                              conversationMemory).steps) :
      PlanCompletes(query, results)

\* ---- requests classified and planned against every catalog
\* a memory holding the result of a finished web_ai_analyze request
SummaryMemory ==
  Remember(NoMemory,
           "Summarize this webpage - https://en.wikipedia.org/wiki/York_University",
           "web_ai_analyze",
           <<StepResult(TRUE, "", "analyze_content",
                        GoodPayload("analyze_content",
                                    [NoArgs EXCEPT !.content = "page text"]))>>)

\* the orchestrator before a request, with any set of announced tools and with
\* or without a remembered result
InitIntent ==
  /\ HubInit
  /\ availableTools \in SUBSET {ToolNames[i] : i \in 1..Len(ToolNames)}
  /\ conversationMemory \in {NoMemory, SummaryMemory}
  /\ pendingRequests = EmptyMap
  /\ timers = {}
  /\ calls = {}
  /\ task = [r \in Req |-> IdleTask]
  /\ onow = 1
  /\ olast = OEvent("init", NoId, 0)

IntentNext == \E r \in Req, query \in IntentQueries : NaturalRequest(r, query)

\* ---- createExecutionPlan applied to every intent tag
\* the tags detectIntent can return for a plan: the pattern groups' intents and
\* the tool names of the fallback
PlanIntents ==
  {IntentPatterns[k] : k \in 1..Len(IntentPatterns)}
    \cup {ToolNames[i] : i \in 1..Len(ToolNames)}

\* const plan = createExecutionPlan(intent, query)
CreatePlan(intent, query) ==
  LET plan == CreateExecutionPlan(intent, query, conversationMemory)
  IN
  /\ task' = [task EXCEPT ![1].intent = intent, ![1].query = query,
                          ![1].steps = plan.steps, ![1].planError = plan.error]
  /\ olast' = OEvent("createExecutionPlan", NoId, 1)
  /\ UNCHANGED <<availableTools, pendingRequests, timers, calls,
                 conversationMemory, onow, hubVars>>

PlanNext == \E intent \in PlanIntents, query \in IntentQueries : CreatePlan(intent, query)

\* ---- plans with a dependent step, run against agents that answer
\* queries whose plan has two steps, the second depending on the first
DepQueries ==
  {"why is 0 + 0 = result",
   "why is 2 + 2 = result",
   "analyze file notes.txt with ai",
   "Summarize this webpage - https://en.wikipedia.org/wiki/York_University"}

\* the tools these plans call, as the hub lists them once their agents registered
PlanTools ==
  {"calculate", "explain_concept", "read_file", "extract_text", "analyze_content"}

DepNext ==
  \/ CatalogUpdate(PlanTools)
  \/ \E r \in Req, query \in DepQueries : NaturalRequest(r, query)
  \/ \E c \in calls, ok \in BOOLEAN :
       OnResponse(c, IF ok THEN GoodPayload(c.name, c.arguments) ELSE BadPayload)
  \/ \E c \in calls, text \in ErrorTexts : OnError(c, text)

\* ---- the orchestrator as one of the hub's connections
\* the connection the orchestrator's connect() opened, and the id it registers
OrchWs == 1
OrchAgent == 1

\* the tools of the orchestrator's register message
OrchTools == {"natural_request"}

\* catalog messages the last hub handler sent on the orchestrator's socket that
\* its message handler has not processed yet
Undelivered ==
  {s \in out : /\ s[1] = OrchWs
               /\ s[2].type \in {"registered", "capabilities_updated"}
               /\ s[2].tools # availableTools}

\* ws.on('open') of the orchestrator: its register message reaches the hub
OrchRegisters ==
  /\ Undelivered = {}
  /\ Register(OrchWs, OrchAgent, OrchTools)

\* register of another agent reaches the hub
WorkerRegisters(ws, agentId, tools) ==
  /\ Undelivered = {}
  /\ ws # OrchWs
  /\ Register(ws, agentId, tools)

\* a connection closes: the close frame, then the hub's ws.on('close')
Disconnects(ws) ==
  /\ Undelivered = {}
  /\ BeginClose(ws) \/ Close(ws)

\* ws.on('message') of the orchestrator for a catalog message of the hub
Deliver(s) ==
  /\ s \in Undelivered
  /\ CatalogUpdate(s[2].tools)

CatalogNext ==
  \/ OrchRegisters
  \/ \E ws \in Conn, a \in AgentId, T \in SUBSET Tool : WorkerRegisters(ws, a, T)
  \/ \E ws \in Conn : Disconnects(ws)
  \/ \E s \in out : Deliver(s)

Init == HubInit /\ OrchInit
Next == HubNext
Spec == Init /\ [][Next]_vars

\* the orchestrator with the hub and the agents as its environment
SpecOrch == Init /\ [][OrchNext]_vars

\* the hub's workflow engine with clients and agents as its environment
InitWf == WfInit /\ OrchInit

\* the conversation memory over a sequence of finished plans
SpecMem == Init /\ [][MemNext]_vars
SpecWf == InitWf /\ [][WfNext]_vars

\* detectIntent and the start of natural_request over the query set
SpecIntent == InitIntent /\ [][IntentNext]_vars

\* createExecutionPlan over the intent tags
SpecPlan == InitIntent /\ [][PlanNext]_vars

\* the two-step plans with their calls answered
SpecDep == Init /\ [][DepNext]_vars

\* the hub's registrations and disconnections with the orchestrator listening
SpecCatalog == Init /\ [][CatalogNext]_vars


\* =================================================== claims about the hub
\* x is the only message of the handler, an error with this id and code to ws
OnlyError(ws, id, code) ==
  \E x \in out : /\ out = {x}
                 /\ x[1] = ws
                 /\ x[2].type = "error" /\ x[2].id = id /\ x[2].code = code

\* C1: when a connection closes, every tool that resolved to another
\* registered agent before the close still resolves to that agent afterwards.
C1_CloseKeepsOthersTools ==
  [][last'.op = "close" =>
       \A t \in DOMAIN toolRegistry :
         (toolRegistry[t] \in DOMAIN agents /\ toolRegistry[t] # wsAgentId[last'.ws])
           => (t \in DOMAIN toolRegistry' /\ toolRegistry'[t] = toolRegistry[t])]_vars

\* C2: a tool name resolves to one owner, and right after register(agentId,
\* tools) every name in tools resolves to agentId (last writer wins).
C2_LastWriterWins ==
  [][last'.op = "register" =>
       \A t \in last'.msg.tools :
         /\ t \in DOMAIN toolRegistry'
         /\ toolRegistry'[t] = last'.msg.agent
         /\ Cardinality({a \in AgentId : toolRegistry'[t] = a}) = 1]_vars

\* a register has just taken over a name that another registered agent advertises
C2_Witness ==
  /\ last.op = "register"
  /\ \E t \in last.msg.tools, b \in DOMAIN agents :
       /\ b # last.msg.agent
       /\ t \in agents[b].tools
       /\ toolRegistry[t] = last.msg.agent

\* C3: every entry of the Tool Registry names an owner that is present in the
\* Agent Registry.
C3_ToolOwnerRegistered ==
  \A t \in DOMAIN toolRegistry : toolRegistry[t] \in DOMAIN agents

\* C4: a tools/call for a registered tool with an open owner is forwarded
\* once, unchanged, to the owner, and the owner's response with that id
\* reaches the original caller.
C4_CallRoundTrip ==
  [][/\ (last'.op = "tools/call"
          /\ CallVerdict(toolRegistry, agents, last'.msg.name) = "forward")
        => \E x \in out' :
             /\ out' = {x}
             /\ x[1] = agents[toolRegistry[last'.msg.name]].ws
             /\ x[2].type = "tools/call"
             /\ x[2].id = last'.msg.id
             /\ x[2].name = last'.msg.name
             /\ x[2].args = last'.msg.args
     /\ \A m \in inflight :
          (/\ last'.op = "reply" /\ last'.msg.type = "response"
           /\ last'.ws = m.to /\ last'.msg.id = m.msg.id
           /\ connState[m.msg.rt] = OPEN)
          => <<m.msg.rt, last'.msg>> \in out']_vars

\* C5: an error message with the call's id from the owning agent is routed to
\* the original caller.
C5_ErrorReachesCaller ==
  [][\A m \in inflight :
       (/\ last'.op = "reply" /\ last'.msg.type = "error"
        /\ last'.ws = m.to /\ last'.msg.id = m.msg.id
        /\ connState[m.msg.rt] = OPEN)
       => \E x \in out' : /\ x[1] = m.msg.rt
                          /\ x[2].type = "error"
                          /\ x[2].id = m.msg.id
                          /\ x[2].code = last'.msg.code]_vars

\* C6: a tools/call naming a tool absent from the Tool Registry yields exactly
\* one TOOL_NOT_FOUND error with the call's id to the sender, forwards
\* nothing, and leaves the registries and the workflow table unchanged.
C6_ToolNotFound ==
  [][(last'.op = "tools/call" /\ last'.msg.name \notin DOMAIN toolRegistry)
       => /\ \E x \in out' :
               /\ out' = {x}
               /\ x[1] = last'.ws
               /\ x[2].type = "error"
               /\ x[2].id = last'.msg.id
               /\ x[2].code = "TOOL_NOT_FOUND"
          /\ inflight' = inflight
          /\ agents' = agents
          /\ toolRegistry' = toolRegistry
          /\ workflows' = workflows]_vars

\* a call for a tool that is not registered while other tools are
C6_Witness ==
  /\ last.op = "tools/call"
  /\ last.msg.name \notin DOMAIN toolRegistry
  /\ DOMAIN toolRegistry # {}
  /\ OnlyError(last.ws, last.msg.id, "TOOL_NOT_FOUND")

AwaitedCallPending ==
  \A r \in Req :
    task[r].pc = "await" =>
      /\ task[r].requestId \in DOMAIN pendingRequests
      /\ pendingRequests[task[r].requestId].req = r
      /\ pendingRequests[task[r].requestId].stepIndex = Len(task[r].results)

\* what a response, an error or a timer firing for a token does
CompletionEffect ==
  olast'.op \in {"response", "error", "timer"} =>
    IF olast'.id \in DOMAIN pendingRequests
    THEN LET requestInfo == pendingRequests[olast'.id]
             before == task[requestInfo.req].results
             after == task'[requestInfo.req].results
         IN /\ olast'.id \notin DOMAIN pendingRequests'
            /\ Len(after) > Len(before)
            /\ SubSeq(after, 1, Len(before)) = before
            /\ after[Len(before) + 1].success = (olast'.op = "response")
            /\ \A q \in Req \ {requestInfo.req} : task'[q] = task[q]
    ELSE /\ task' = task
         /\ pendingRequests' = pendingRequests

\* C8: every pending call of the orchestrator is completed exactly once: a call
\* that is awaited keeps its own entry in the pending table until a response, an
\* error or its timer arrives for its token; that event removes the entry and
\* records the outcome of that call and of no other; an event for a token that
\* is not pending changes neither the recorded outcomes nor the pending table.
C8_ExactlyOnceCompletion ==
  [](AwaitedCallPending) /\ [][CompletionEffect]_vars

\* C9: no two calls that are outstanding at the same time share a correlation
\* token, also when two natural_request plans dispatch the same step index in
\* the same clock tick.
C9_OutstandingTokensDistinct ==
  \A r1, r2 \in Req :
    (r1 # r2 /\ task[r1].pc = "await" /\ task[r2].pc = "await")
      => task[r1].requestId # task[r2].requestId

\* C10: when a plan has finished, its result list has one entry per step in
\* step order if every step succeeded; otherwise its length is the index of the
\* first failing step plus one, the entries before it are the earlier steps'
\* successful results in step order, and no later step was dispatched.
C10_AbortInvariant ==
  \A r \in Req :
    (task[r].pc = "done" /\ task[r].intent # "unknown") =>
      LET results == task[r].results
          steps == task[r].steps
      IN /\ Len(results) <= Len(steps)
         /\ \A k \in 1..Len(results) :
              results[k].success => results[k].tool = steps[k].tool
         /\ IF \A k \in 1..Len(results) : results[k].success
            THEN /\ Len(results) = Len(steps)
                 /\ task[r].dispatched = {k - 1 : k \in 1..Len(steps)}
            ELSE /\ Len(results) = FirstFailed(results)
                 /\ task[r].dispatched \subseteq {k - 1 : k \in 1..FirstFailed(results)}

\* a two-step plan whose first call failed remotely and whose second step was
\* never dispatched, and a two-step plan that ran to its end
C10_Witness ==
  /\ \E r \in Req :
       /\ task[r].pc = "done"
       /\ Len(task[r].steps) = 2
       /\ Len(task[r].results) = 1
       /\ ~task[r].results[1].success
       /\ task[r].dispatched = {0}
  /\ \E r \in Req :
       /\ task[r].pc = "done"
       /\ Len(task[r].steps) = 2
       /\ Len(task[r].results) = 2
       /\ task[r].results[2].success

\* ------------------------------------------------- workflow claims
\* an entry of a workflow's result list that records a successful step
StepSucceeded(result) == result.ok /\ result.err = ""

\* C11: a workflow ends with status 'completed' only if every one of its steps
\* succeeded; a step whose tool is absent from the registry, whose agent is
\* unavailable or whose worker reports failure makes it end 'failed' with
\* index-plus-one results and no later step dispatched.
C11_CompletedOnlyIfAllSucceeded ==
  \A wid \in DOMAIN workflows :
    workflows[wid].status = "completed" =>
      /\ Len(workflows[wid].results) = Len(workflows[wid].steps)
      /\ \A k \in 1..Len(workflows[wid].results) :
           StepSucceeded(workflows[wid].results[k])

\* cursor and result list stay within the step list
WorkflowWithinSteps ==
  \A wid \in DOMAIN workflows :
    /\ workflows[wid].currentStep <= Len(workflows[wid].steps)
    /\ Len(workflows[wid].results) <= Len(workflows[wid].steps)

\* a message that arrives for an existing workflow never moves its cursor back,
\* and once the workflow is terminal no further workflow/result is emitted
WorkflowTerminalOnce ==
  \A wid \in DOMAIN workflows :
    (last'.op = "reply" /\ wid \in DOMAIN workflows') =>
      /\ workflows'[wid].currentStep >= workflows[wid].currentStep
      /\ workflows[wid].status = "completed" =>
           ~\E x \in out' : x[2].type = "workflow/result" /\ x[2].workflowId = wid

\* C12: whatever messages carrying a workflow's id arrive at the hub, duplicated
\* or late responses included, its cursor never decreases and never exceeds the
\* step count, its result list never has more entries than steps, and its
\* status becomes terminal once, with one workflow/result message.
C12_WorkflowBounds ==
  [](WorkflowWithinSteps) /\ [][WorkflowTerminalOnce]_vars

\* results[i] is the outcome of step i: an {error} entry the hub made for that
\* step, or the answer to the call the hub sent for that step
ResultsMatchSteps ==
  \A wid \in DOMAIN workflows :
    \A k \in 1..Len(workflows[wid].results) :
      \/ workflows[wid].results[k].err # ""
      \/ workflows[wid].results[k].src = StepId(wid, k - 1)

\* a step's call leaves the hub only when the outcomes of all earlier steps
\* are recorded, and it is the only outstanding call of its workflow
StepCallInOrder ==
  \A x \in out' :
    (x[2].type = "tools/call" /\ x[2].wf # 0 /\ x[2].wf \in DOMAIN workflows') =>
      /\ Len(workflows'[x[2].wf].results) = x[2].id.b
      /\ \A m \in inflight' : m.msg.wf = x[2].wf => m.msg = x[2]

\* C13: within one workflow the call of step i+1 is sent only after the outcome
\* of step i is recorded, at most one call of the workflow is outstanding, and
\* results[i] is always the outcome of step i: a response advances the
\* workflow only as the answer to the step at the cursor.
C13_StepsInOrder ==
  [](ResultsMatchSteps) /\ [][StepCallInOrder]_vars

\* C14: every workflow accepted by workflow/start eventually reaches a terminal
\* status and emits workflow/result, also when a worker never answers a step's
\* call or answers it with an error message.  The hub starts no timer for a
\* step, so a workflow can only be advanced by the answer to an outstanding
\* call; as a property of finite runs: a workflow that is still running has
\* the call of its current step outstanding at an open connection.
C14_RunningWorkflowCanAdvance ==
  \A wid \in DOMAIN workflows :
    workflows[wid].status = "running" =>
      \E m \in inflight :
        /\ m.msg.wf = wid
        /\ m.msg.id = StepId(wid, workflows[wid].currentStep)
        /\ connState[m.to] = OPEN

\* C16: in a workflow [fetch step, write step with dependsOn 0] the write_file
\* call the hub sends carries as content the data field of the fetch step's
\* result, not the content the caller put in the step.
C16_WriteCarriesFetchedData ==
  [][\A x \in out' :
       (/\ x[2].type = "tools/call"
        /\ x[2].wf # 0
        /\ x[2].wf \in DOMAIN workflows'
        /\ x[2].name = "write_file"
        /\ x[2].id.b = 1
        /\ Len(workflows'[x[2].wf].steps) = 2
        /\ workflows'[x[2].wf].steps[1].tool = "fetch_url"
        /\ workflows'[x[2].wf].steps[2].dependsOn = 0
        /\ Len(workflows'[x[2].wf].results) = 1
        /\ StepSucceeded(workflows'[x[2].wf].results[1]))
       => x[2].args = workflows'[x[2].wf].results[1].data]_vars

\* ------------------------------------------------- orchestrator claims (2)
\* C15: a plan step whose call got neither a response nor an error resolves as
\* the failure 'Tool call timeout' when its timer fires; the results gathered
\* before it are kept, no later step is dispatched, and the natural_request
\* returns its reply.
C15_TimeoutFailsStep ==
  [][\A r \in Req :
       (/\ olast'.op = "timer"
        /\ olast'.req = r
        /\ task[r].pc = "await"
        /\ task[r].requestId = olast'.id
        /\ \E c \in calls : c.req = r /\ c.stepIndex = Len(task[r].results))
       => /\ task'[r].pc = "done"
          /\ Len(task'[r].results) = Len(task[r].results) + 1
          /\ SubSeq(task'[r].results, 1, Len(task[r].results)) = task[r].results
          /\ ~task'[r].results[Len(task'[r].results)].success
          /\ task'[r].results[Len(task'[r].results)].error = "Tool call timeout"
          /\ task'[r].dispatched = task[r].dispatched
          /\ task'[r].reply.response = "I encountered an error: Tool call timeout"]_vars

\* the entry a step of request r has just added to its result list holds a
\* worker's result object whose success flag is false
WorkerReportedFailure(r) ==
  /\ olast'.op = "response"
  /\ Len(task'[r].results) > Len(task[r].results)
  /\ task'[r].results[Len(task[r].results) + 1].result.defined
  /\ ~task'[r].results[Len(task[r].results) + 1].result.success

\* C17: a plan step that a worker answers with a result object whose success
\* flag is false counts as failed: no later step of the plan is dispatched and
\* the conversation memory is left unchanged.
C17_WorkerFailureFailsStep ==
  [][\A r \in Req :
       WorkerReportedFailure(r) =>
         /\ ~task'[r].results[Len(task[r].results) + 1].success
         /\ task'[r].dispatched = task[r].dispatched
         /\ conversationMemory' = conversationMemory]_vars

\* every step of the finished plan of t succeeded, as its result list records it
PlanSucceeded(t) ==
  /\ t.intent # "unknown"
  /\ Len(t.steps) > 0
  /\ Len(t.results) = Len(t.steps)
  /\ \A k \in 1..Len(t.results) : t.results[k].success

\* C18: a natural_request changes the conversation memory only when every step
\* of its plan succeeded, and then sets lastResult, lastQuery and lastIntent to
\* the final step's result, the query and the intent tag and records them in
\* recentResults; a request with a failed step, with no steps or classified
\* unknown leaves all four fields unchanged, and so does every other event.
C18_MemoryFrame ==
  [][/\ \A r \in Req :
          (task[r].pc # "done" /\ task'[r].pc = "done") =>
            IF PlanSucceeded(task'[r])
            THEN /\ conversationMemory'.lastResult
                      = task'[r].results[Len(task'[r].results)].result
                 /\ conversationMemory'.lastQuery = task'[r].query
                 /\ conversationMemory'.lastIntent = task'[r].intent
                 /\ Len(conversationMemory'.recentResults) > 0
                 /\ conversationMemory'.recentResults[
                        Len(conversationMemory'.recentResults)]
                      = [query |-> task'[r].query, intent |-> task'[r].intent,
                         result |-> conversationMemory'.lastResult]
            ELSE conversationMemory' = conversationMemory
     /\ (\A r \in Req : ~(task[r].pc # "done" /\ task'[r].pc = "done"))
          => conversationMemory' = conversationMemory]_vars

\* one request has stored its result and another request, whose plan had a
\* failed step, has finished without replacing it
C18_Witness ==
  /\ conversationMemory.lastIntent # ""
  /\ \E r \in Req :
       /\ task[r].pc = "done"
       /\ task[r].intent # "unknown"
       /\ Len(task[r].results) > 0
       /\ ~task[r].results[Len(task[r].results)].success
       /\ task[r].query # conversationMemory.lastQuery

\* C19: recentResults never holds more than 5 entries, and a finished plan
\* either leaves it alone or appends its entry at the end, dropping the oldest
\* entry, and no other, when 5 entries are already there.
C19_RecentResultsRing ==
  /\ [](Len(conversationMemory.recentResults) <= RecentCap)
  /\ [][\/ conversationMemory'.recentResults = conversationMemory.recentResults
        \/ /\ Len(conversationMemory'.recentResults) > 0
           /\ SubSeq(conversationMemory'.recentResults, 1,
                     Len(conversationMemory'.recentResults) - 1)
                = IF Len(conversationMemory.recentResults) < RecentCap
                  THEN conversationMemory.recentResults
                  ELSE Tail(conversationMemory.recentResults)]_vars

\* a sixth successful plan has finished and the buffer holds 5 entries that
\* are not all alike
C19_Witness ==
  /\ olast.req >= RecentCap + 1
  /\ Len(conversationMemory.recentResults) = RecentCap
  /\ conversationMemory.recentResults[1].query
       # conversationMemory.recentResults[RecentCap].query

\* C20: a save_context request processed while the conversation memory is empty
\* dispatches no write_file call, and its reply reports a failure that says
\* there is no previous result to save.
C20_NoPriorResult ==
  \A r \in Req :
    (task[r].pc = "done" /\ task[r].intent = "save_context" /\ task[r].planError # "")
      => /\ task[r].dispatched = {}
         /\ task[r].steps = <<>>
         /\ task[r].reply.response = task[r].planError

\* =================================== claims about intents, plans and routing

\* request 1 was a web_ai_analyze request, it has returned, and both of its
\* steps succeeded with the analysis agent reporting success
SummarizeCompleted ==
  /\ task[1].pc = "done"
  /\ task[1].intent = "web_ai_analyze"
  /\ PlanSucceeded(task[1])
  /\ \A k \in 1..Len(task[1].results) : task[1].results[k].result.success

\* the arguments the save request must send: the file name of the query and
\* the header followed by the analysis text of the first request
SummaryFileArgs ==
  [NoArgs EXCEPT
     !.path = "york.txt",
     !.content = "Website Summary\n================\n\n"
                   \o task[1].results[2].result.analysis]

\* C21: when a web_ai_analyze request has completed successfully and the next
\* request processed is "save that to york.txt", the plan of the save request is
\* one write_file step with path york.txt and content equal to the fixed header
\* followed by the analysis text of the first request, and the call dispatched
\* for it carries exactly these arguments.
C21_SaveWritesStoredSummary ==
  [][(/\ SummarizeCompleted
      /\ task[2].pc = "idle"
      /\ task'[2].pc # "idle"
      /\ task'[2].query = "save that to york.txt")
       => /\ task'[2].intent = "save_context"
          /\ Len(task'[2].steps) = 1
          /\ task'[2].steps[1].tool = "write_file"
          /\ task'[2].steps[1].arguments = SummaryFileArgs
          /\ "write_file" \in availableTools =>
               /\ task'[2].dispatched = {0}
               /\ \E c \in calls' \ calls :
                    /\ c.req = 2
                    /\ c.name = "write_file"
                    /\ c.arguments = SummaryFileArgs]_vars

\* the summary has been stored and the save request has sent its write_file call
C21_Witness ==
  /\ SummarizeCompleted
  /\ task[1].results[2].result.analysis = "summary of page text"
  /\ task[2].query = "save that to york.txt"
  /\ \E c \in calls :
       /\ c.req = 2
       /\ c.name = "write_file"
       /\ c.arguments.content
            = "Website Summary\n================\n\nsummary of page text"

\* the messages of the last event that connection d received with type ty
Received(d, ty) == {x \in out : x[1] = d /\ x[2].type = ty}

\* C22: on register, the registering connection receives exactly one
\* registered message listing every tool name of the Tool Registry after the
\* insertion, every other registered agent with an open connection receives
\* exactly one capabilities_updated message with the same list, nobody else
\* receives anything, and the registering agent receives no capabilities_updated.
C22_RegisterNotifies ==
  (last.op = "register") =>
    /\ Received(last.ws, "registered")
         = {<<last.ws, RegisteredMsg(last.msg.agent, toolRegistry)>>}
    /\ last.msg.tools \subseteq Catalog(toolRegistry)
    /\ \A b \in DOMAIN agents \ {last.msg.agent} :
         connState[agents[b].ws] = OPEN =>
           Received(agents[b].ws, "capabilities_updated")
             = {<<agents[b].ws, CapabilitiesUpdatedMsg(toolRegistry)>>}
    /\ \A x \in out :
         \/ x \in Received(last.ws, "registered")
         \/ /\ x[2].type = "capabilities_updated"
            /\ \E b \in DOMAIN agents \ {last.msg.agent} : agents[b].ws = x[1]
    /\ Received(last.ws, "capabilities_updated") = {}

\* the event e is a message whose type has no entry in messageHandlers
NoHandler(e) ==
  \/ e.op \in {"unknown", "request"}
  \/ (e.op = "reply" /\ e.msg.type = "error")

\* the registries, the workflow table and the connections are as they were
RegistriesUntouched ==
  /\ agents' = agents
  /\ toolRegistry' = toolRegistry
  /\ workflows' = workflows
  /\ wsAgentId' = wsAgentId
  /\ connState' = connState

C24_MalformedAnswered ==
  [][last'.op = "malformed" =>
       /\ \E x \in out' :
            /\ out' = {x}
            /\ x[1] = last'.ws
            /\ x[2].type = "error"
            /\ x[2].code # ""
       /\ RegistriesUntouched]_vars

\* C25: the response to a forwarded tools/call is delivered to the original
\* caller only: no connection other than the one that issued the call with
\* that id receives it.
C25_ResponseToCallerOnly ==
  [][\A m \in inflight :
       (/\ last'.op = "reply"
        /\ last'.msg.type = "response"
        /\ last'.ws = m.to
        /\ last'.msg.id = m.msg.id)
       => \A x \in out' : x[2].type = "response" => x[1] = m.msg.rt]_vars

\* C26: workflows in flight at the same time have distinct workflow ids, also
\* when they are started within the same clock tick, and do not affect each
\* other: a workflow/start gets an id that no running workflow has, and every
\* running workflow keeps its steps, its results and its starting connection.
C26_WorkflowsIndependent ==
  [][last'.op = "workflow/start" =>
       \A w \in DOMAIN workflows :
         workflows[w].status = "running" =>
           /\ last'.msg.wf # w
           /\ w \in DOMAIN workflows'
           /\ workflows'[w].steps = workflows[w].steps
           /\ workflows'[w].clientWs = workflows[w].clientWs
           /\ workflows'[w].results = workflows[w].results]_vars

\* the request the last event started
Started == task[olast.req]

NamedTools ==
  {t \in availableTools :
     Includes(Started.query, t) \/ Includes(Started.query, SpokenName(t))}

\* C28: when no pattern group matches the query, detectIntent returns an
\* intent named after an announced tool whose name the query mentions, and
\* 'unknown' exactly when the query mentions no announced tool; a request
\* classified unknown dispatches no tool call.
C28_FallbackToMentionedTool ==
  (olast.op = "natural_request" /\ MatchedGroups(Started.query) = {}) =>
    /\ NamedTools # {} => Started.intent \in NamedTools
    /\ NamedTools = {} <=> Started.intent = "unknown"
    /\ Started.intent = "unknown" =>
         /\ Started.dispatched = {}
         /\ Started.steps = <<>>
         /\ \A c \in calls : c.req # olast.req

\* the intents whose case of createExecutionPlan is one step: the twelve
\* single-tool intents, and save_context when there is a result to save
OneStepIntent(intent) ==
  \/ intent \in {"read_file", "calculate", "statistics", "fetch_url", "extract_text",
                 "list_files", "write_file", "ai_analyze", "ai_generate",
                 "ai_explain", "ai_improve", "ai_question"}
  \/ (intent = "save_context" /\ conversationMemory.lastResult.defined)

\* C29: for every intent tag the plan of createExecutionPlan satisfies: a
\* step's dependsOn, when present, names an earlier step (it is at least 0 and
\* less than the step's own index); a single-step intent yields exactly one
\* step without dependsOn; web_ai_analyze, file_ai_analyze and calc_ai_explain
\* yield exactly two steps, the first without dependsOn and the second with
\* dependsOn = 0.
C29_PlanShape ==
  (olast.op = "createExecutionPlan") =>
    LET steps == task[1].steps
        intent == task[1].intent
    IN /\ \A k \in 1..Len(steps) :
            steps[k].dependsOn # -1 =>
              (0 <= steps[k].dependsOn /\ steps[k].dependsOn < k - 1)
       /\ OneStepIntent(intent) =>
            (Len(steps) = 1 /\ steps[1].dependsOn = -1)
       /\ intent \in {"web_ai_analyze", "file_ai_analyze", "calc_ai_explain"} =>
            /\ Len(steps) = 2
            /\ steps[1].dependsOn = -1
            /\ steps[2].dependsOn = 0

\* the plan of a calc_ai_explain request has been made: calculate, then
\* explain_concept depending on it
C29_Witness ==
  /\ olast.op = "createExecutionPlan"
  /\ task[1].intent = "calc_ai_explain"
  /\ Len(task[1].steps) = 2
  /\ task[1].steps[1].tool = "calculate"
  /\ task[1].steps[2].tool = "explain_concept"
  /\ task[1].steps[2].dependsOn = 0

\* request r has just sent the call of its second step
SecondStepDispatched(r) == 1 \notin task[r].dispatched /\ 1 \in task'[r].dispatched

\* C30: in a web_ai_analyze plan whose extract_text step succeeded with a
\* non-empty text field, the analyze_content step is dispatched with content
\* equal to that text field.
C30_AnalyzeGetsExtractedText ==
  [][\A r \in Req :
       (/\ SecondStepDispatched(r)
        /\ task'[r].intent = "web_ai_analyze"
        /\ task'[r].results[1].success
        /\ task'[r].results[1].result.text # "")
       => /\ task'[r].steps[2].arguments.content = task'[r].results[1].result.text
          /\ \E c \in calls' \ calls :
               /\ c.req = r
               /\ c.stepIndex = 1
               /\ c.name = "analyze_content"
               /\ c.arguments.content = task'[r].results[1].result.text]_vars

\* the analysis call of a web_ai_analyze request is on its way with the text
\* the extraction step returned
C30_Witness ==
  \E r \in Req, c \in calls :
    /\ task[r].intent = "web_ai_analyze"
    /\ task[r].pc = "await"
    /\ Len(task[r].results) = 1
    /\ task[r].results[1].result.text = "page text"
    /\ c.req = r
    /\ c.name = "analyze_content"
    /\ c.arguments.content = "page text"

\* ========================== claims about dependent steps, replies and memory

\* C31: in a calc_ai_explain plan whose calculate step succeeded with the
\* numeric result v, the explain_concept step is dispatched with context equal
\* to 'The calculation result is: ' followed by the textual form of v, for
\* every numeric v including 0.
C31_ExplainGetsResult ==
  [][\A r \in Req :
       (/\ SecondStepDispatched(r)
        /\ task'[r].intent = "calc_ai_explain"
        /\ task'[r].results[1].success
        /\ task'[r].results[1].result.success
        /\ task'[r].results[1].result.result # "")
       => \E c \in calls' \ calls :
            /\ c.req = r
            /\ c.name = "explain_concept"
            /\ c.arguments.context =
                 "The calculation result is: " \o task'[r].results[1].result.result]_vars

\* request r returns in this step
Returns(r) == task[r].pc # "done" /\ task'[r].pc = "done"

\* C32: a natural_request returns one structured reply with a success flag and
\* one response message, and the reply is never replaced afterwards; when a
\* step of its plan failed, the message is the error report of the first
\* failed step and names the error of no other step. (That a request returns
\* at all is the subject of C35.)
C32_OneReplyFirstFailure ==
  [][\A r \in Req :
       /\ Returns(r) =>
            LET t == task'[r]
                failed == {k \in 1..Len(t.results) : ~t.results[k].success}
            IN /\ t.reply.success \in BOOLEAN
               /\ t.reply.response # ""
               /\ failed # {} =>
                    \E k \in failed :
                      /\ \A j \in failed : k <= j
                      /\ t.reply.response
                           = "I encountered an error: " \o t.results[k].error
       /\ task[r].pc = "done" => task'[r] = task[r]]_vars

\* a two-step plan has returned after its second step failed, and the reply
\* reports that step's error
C32_Witness ==
  \E r \in Req :
    /\ task[r].pc = "done"
    /\ Len(task[r].results) = 2
    /\ task[r].results[1].success
    /\ ~task[r].results[2].success
    /\ task[r].reply.response
         = "I encountered an error: " \o task[r].results[2].error
    /\ task[r].results[2].error # ""

\* C33: the success flag of a natural_request reply is false whenever the
\* request failed (a step of its plan failed, the intent was classified
\* unknown, or there was no prior result to save) and true only when every
\* step of a non-empty plan succeeded.
C33_SuccessFlagTellsOutcome ==
  \A r \in Req :
    task[r].pc = "done" =>
      (task[r].reply.success <=> PlanSucceeded(task[r]))

\* C34: a worker reply that satisfies the Tool Provider Contract (a response
\* carrying the call's id and a result object, with no further fields) is
\* sufficient for the hub to record the outcome of the workflow step it
\* answers and to advance that workflow.
C34_ContractReplyAdvances ==
  [][\A m \in inflight :
       (/\ m.msg.wf \in DOMAIN workflows
        /\ workflows[m.msg.wf].status = "running"
        /\ last'.op = "reply"
        /\ last'.ws = m.to
        /\ last'.msg.type = "response"
        /\ last'.msg.id = m.msg.id
        /\ last'.msg.wf = 0)
       => /\ workflows'[m.msg.wf].results
               = Append(workflows[m.msg.wf].results, last'.msg.result)
          /\ workflows'[m.msg.wf].currentStep > workflows[m.msg.wf].currentStep]_vars

\* C36: the close of a connection unregisters agent id A only if that
\* connection is A's current registration: when A has registered again on a
\* newer connection before the hub processes the close of the older one, A's
\* newer registration and its tools stay in the registries.
C36_CloseSparesNewerRegistration ==
  [][\A a \in DOMAIN agents :
       (/\ last'.op = "close"
        /\ wsAgentId[last'.ws] = a
        /\ agents[a].ws # last'.ws)
       => /\ a \in DOMAIN agents'
          /\ agents'[a] = agents[a]
          /\ \A t \in agents[a].tools :
               (t \in DOMAIN toolRegistry /\ toolRegistry[t] = a)
                 => (t \in DOMAIN toolRegistry' /\ toolRegistry'[t] = a)]_vars

\* C37: in every reachable state of the orchestrator, when recentResults is
\* non-empty, lastResult, lastQuery and lastIntent equal the result, query and
\* intent of its newest entry, and when it is empty all three are null.
C37_LastIsNewestEntry ==
  LET recent == conversationMemory.recentResults
  IN IF Len(recent) > 0
     THEN /\ conversationMemory.lastResult = recent[Len(recent)].result
          /\ conversationMemory.lastQuery = recent[Len(recent)].query
          /\ conversationMemory.lastIntent = recent[Len(recent)].intent
     ELSE /\ conversationMemory.lastResult = NoPayload
          /\ conversationMemory.lastQuery = ""
          /\ conversationMemory.lastIntent = ""

\* two requests with different queries have stored their results, the second
\* one being the newest entry
C37_Witness ==
  LET recent == conversationMemory.recentResults
  IN /\ Len(recent) = 2
     /\ recent[1].query # recent[2].query
     /\ recent[1].intent # recent[2].intent
     /\ conversationMemory.lastQuery = recent[2].query
     /\ conversationMemory.lastResult.defined

\* C38: in every plan that has a step with dependsOn, when the referenced step
\* succeeded the dependent step is never dispatched with the template
\* placeholder 'PLACEHOLDER' still in its arguments.
C38_PlaceholderReplaced ==
  [][\A r \in Req :
       (/\ SecondStepDispatched(r)
        /\ task'[r].steps[2].dependsOn = 0
        /\ task'[r].results[1].success
        /\ task'[r].results[1].result.success)
       => \A c \in calls' \ calls :
            c.req = r =>
              /\ c.arguments.content # "PLACEHOLDER"
              /\ c.arguments.context # "PLACEHOLDER"
              /\ c.arguments.text # "PLACEHOLDER"]_vars

\* request r starts in this step and is classified by the tool-name fallback
StartsByFallback(r) ==
  /\ task[r].pc = "idle"
  /\ task'[r].pc # "idle"
  /\ MatchedGroups(task'[r].query) = {}
  /\ task'[r].intent # "unknown"

\* C40: a request classified by the tool-name fallback compiles to a single
\* pseudo-step that fails locally: no tool call is dispatched, the request
\* returns at once with a reply that reports "I don't understand how to:
\* <query>", and the conversation memory is unchanged.
C40_FallbackFailsLocally ==
  [][\A r \in Req :
       StartsByFallback(r) =>
         /\ task'[r].intent \in availableTools
         /\ Len(task'[r].steps) = 1
         /\ task'[r].steps[1].tool = "error"
         /\ task'[r].dispatched = {}
         /\ calls' = calls
         /\ pendingRequests' = pendingRequests
         /\ task'[r].pc = "done"
         /\ task'[r].reply.response
              = "I encountered an error: I don't understand how to: "
                  \o task'[r].query
         /\ conversationMemory' = conversationMemory]_vars

\* a request naming convert_units has returned while an earlier result is
\* still remembered
C40_Witness ==
  \E r \in Req :
    /\ task[r].pc = "done"
    /\ task[r].intent = "convert_units"
    /\ task[r].query = "convert units 5 km to miles"
    /\ task[r].dispatched = {}
    /\ conversationMemory.lastIntent # ""

\* the orchestrator is registered on its open socket and has handled every
\* catalog message the hub sent it
OrchSettled ==
  /\ connState[OrchWs] = OPEN
  /\ wsAgentId[OrchWs] = OrchAgent
  /\ OrchAgent \in DOMAIN agents
  /\ agents[OrchAgent].ws = OrchWs
  /\ Undelivered = {}

\* C39: after an agent disconnects, the orchestrator's cached catalog stops
\* listing that agent's tools without any other registration: once all
\* messages are delivered every name in availableTools is in the hub's tool
\* registry.
C39_CatalogFollowsRegistry ==
  OrchSettled => availableTools \subseteq Catalog(toolRegistry)

\* request r awaits a step whose token is no longer in the pending table after
\* the clock has moved past the token's millisecond: no response, error or timer
\* can resolve the step, and no later executeStep can make this token again
Stuck(r) ==
  /\ task[r].pc = "await"
  /\ onow > task[r].requestId.a
  /\ task[r].requestId \notin DOMAIN pendingRequests

\* C35: every natural_request eventually returns its reply: each dispatched
\* plan step is eventually resolved by a response, an error or its timeout,
\* also when several requests are executed concurrently. In finite runs: no
\* request is ever left awaiting a step that nothing can resolve any more.
C35_EveryStepResolvable == \A r \in Req : ~Stuck(r)

====
